---- MODULE Spec2Model ----
(***************************************************************************)
(* A model of the Go Merkle tree (merkletree.go, types.go and the helper   *)
(* file holding getNextPowerOfTwo and getRoot).                            *)
(*                                                                         *)
(* Strings are sequences of atoms.  An atom is either one plain character  *)
(* or one 64-character lowercase-hex SHA-256 digest text; the digest of    *)
(* the string s is the atom that records s, so that SHA-256 is injective   *)
(* (collision-free) and hashing the concatenation of two strings is        *)
(* hashing the concatenation of their atom sequences.                      *)
(*                                                                         *)
(* A uint64 is the record [hi, lo]: hi is bit 63, lo the low 63 bits.      *)
(***************************************************************************)
EXTENDS Integers, Sequences, FiniteSets

\* ------------------------------------------------------------------ bounds
MaxLen == 3

\* ----------------------------------------------------------------- strings
Ch(c) == [pre |-> <<>>, ch |-> c]

Sha256Hex(s) == <<[pre |-> s, ch |-> "#"]>>

hashLeaf(leaf) == Sha256Hex(leaf)

hashNode(a, b) == Sha256Hex(a \o b)

EmptyString == <<>>

Elements ==
  { EmptyString, <<Ch("a")>>,
    hashLeaf(<<Ch("a")>>) \o hashLeaf(EmptyString) }

RECURSIVE SeqsOfLen(_, _)
SeqsOfLen(S, n) ==
  IF n = 0 THEN { <<>> }
  ELSE { Append(s, x) : s \in SeqsOfLen(S, n - 1), x \in S }

ElementSeqs == UNION { SeqsOfLen(Elements, n) : n \in 0..MaxLen }

\* ------------------------------------------------------------------ uint64
U64(n) == [hi |-> 0, lo |-> n]

Big(n) == [hi |-> 1, lo |-> n]

\* uint64 comparison a >= b
UGeq(a, b) == a.hi > b.hi \/ (a.hi = b.hi /\ a.lo >= b.lo)

\* uint64 comparison a > b
UGt(a, b) == a.hi > b.hi \/ (a.hi = b.hi /\ a.lo > b.lo)

\* int(u) >= n for a slice length n: int(u) is negative when bit 63 is set
IntGeq(u, n) == u.hi = 0 /\ u.lo >= n

\* int(u) > n for a slice length n
IntGt(u, n) == u.hi = 0 /\ u.lo > n

\* s[u] is in range for a slice of length n (the runtime compares unsigned)
InRange(u, n) == u.hi = 0 /\ u.lo < n

\* (b - a) < 1 in uint64 arithmetic: the wrapped difference is 0 iff a = b
USubLess1(b, a) == b = a

\* ------------------------------------------------------- getNextPowerOfTwo
RECURSIVE BitOr(_, _)
BitOr(a, b) ==
  IF a = 0 THEN b
  ELSE IF b = 0 THEN a
  ELSE (IF a % 2 = 1 \/ b % 2 = 1 THEN 1 ELSE 0) + 2 * BitOr(a \div 2, b \div 2)

Shr(n, k) == n \div (2 ^ k)

\* getNextPowerOfTwo without the n-- that keeps exact powers of two
getNextPowerOfTwo_NoDecrement(n) ==
  IF n <= 0 THEN 1
  ELSE LET n1 == BitOr(n, Shr(n, 1))
           n2 == BitOr(n1, Shr(n1, 2))
           n3 == BitOr(n2, Shr(n2, 4))
           n4 == BitOr(n3, Shr(n3, 8))
           n5 == BitOr(n4, Shr(n4, 16))
       IN  n5 + 1

getNextPowerOfTwo(n) ==
  IF n <= 0 THEN 1
  ELSE LET n0 == n - 1
           n1 == BitOr(n0, Shr(n0, 1))
           n2 == BitOr(n1, Shr(n1, 2))
           n3 == BitOr(n2, Shr(n2, 4))
           n4 == BitOr(n3, Shr(n3, 8))
           n5 == BitOr(n4, Shr(n4, 16))
       IN  n5 + 1

\* ------------------------------------------------------------------- nodes
\* A *Node is an index into the heap `nodes`; 0 is the nil pointer.
NilNode == 0

Node(h, l, r, p) == [hash |-> h, left |-> l, right |-> r, parent |-> p]

NilTree == [root |-> NilNode, leaves |-> <<>>]

\* (n *Node) getSibling
getSibling(heap, n) ==
  IF heap[n].parent = NilNode THEN NilNode
  ELSE IF n = heap[heap[n].parent].left THEN heap[heap[n].parent].right
  ELSE heap[heap[n].parent].left

\* ----------------------------------------------------------- NewMerkleTree
\* leaves[i] = &Node{hash: hashLeaf(elem)}
ElementLeaves(elements) ==
  [i \in 1..Len(elements) |-> Node(hashLeaf(elements[i]), NilNode, NilNode, NilNode)]

\* for len(leaves) < requiredLeaves { leaves = append(leaves, &Node{hash: hashLeaf("")}) }
RECURSIVE PadLeaves(_, _)
PadLeaves(ls, requiredLeaves) ==
  IF Len(ls) < requiredLeaves
  THEN PadLeaves(Append(ls, Node(hashLeaf(EmptyString), NilNode, NilNode, NilNode)),
                 requiredLeaves)
  ELSE ls

\* the inner loop: for i := 0; i < len(leaves); i += 2
RECURSIVE PairUp(_, _, _, _)
PairUp(heap, level, i, nextLevel) ==
  IF i > Len(level) THEN [heap |-> heap, nextLevel |-> nextLevel]
  ELSE LET left   == level[i]
           right  == level[i + 1]
           p      == Len(heap) + 1
           parent == Node(hashNode(heap[left].hash, heap[right].hash),
                          left, right, NilNode)
           heap1  == Append([heap EXCEPT ![left].parent = p, ![right].parent = p],
                            parent)
       IN  PairUp(heap1, level, i + 2, Append(nextLevel, p))

\* the outer loop: for len(leaves) > 1
RECURSIVE BuildLevels(_, _)
BuildLevels(heap, level) ==
  IF Len(level) > 1
  THEN LET r == PairUp(heap, level, 1, <<>>)
       IN  BuildLevels(r.heap, r.nextLevel)
  ELSE [heap |-> heap, root |-> level[1]]

NewMerkleTreeOp(elements) ==
  IF Len(elements) = 0
  THEN [err |-> TRUE, heap |-> <<>>, tree |-> NilTree]
  ELSE LET requiredLeaves == getNextPowerOfTwo(Len(elements))
           ls == PadLeaves(ElementLeaves(elements), requiredLeaves)
           b  == BuildLevels(ls, [i \in 1..Len(ls) |-> i])
       IN  [err |-> FALSE, heap |-> b.heap,
            tree |-> [root |-> b.root,
                      leaves |-> [i \in 1..requiredLeaves |-> i]]]

\* the elements a freshly built tree stores at its leaves (padding included)
RECURSIVE PadElements(_, _)
PadElements(es, n) ==
  IF Len(es) < n THEN PadElements(Append(es, EmptyString), n) ELSE es

\* ----------------------------------------------------------------- getRoot
getRoot(heap, t) == IF t.root = NilNode THEN EmptyString ELSE heap[t.root].hash

\* ---------------------------------------------------------------- GetProof
ZeroProof == [hElement |-> EmptyString, siblings |-> <<>>, directions |-> <<>>]

\* for node != t.root { ... node = parent }
RECURSIVE ProofWalk(_, _, _, _, _)
ProofWalk(heap, root, node, siblings, directions) ==
  IF node # root
  THEN LET parent == heap[node].parent
       IN  IF heap[parent].left = node
           THEN ProofWalk(heap, root, parent,
                          Append(siblings, heap[heap[parent].right].hash),
                          Append(directions, FALSE))
           ELSE ProofWalk(heap, root, parent,
                          Append(siblings, heap[heap[parent].left].hash),
                          Append(directions, TRUE))
  ELSE [siblings |-> siblings, directions |-> directions]

\* GetProof with the direction flags inverted
GetProofOp_FlippedDirections(heap, t, index) ==
  IF IntGeq(index, Len(t.leaves))
  THEN [outcome |-> "error", proof |-> ZeroProof]
  ELSE IF ~InRange(index, Len(t.leaves))
  THEN [outcome |-> "panic", proof |-> ZeroProof]
  ELSE LET leaf == t.leaves[index.lo + 1]
           w    == ProofWalk(heap, t.root, leaf, <<>>, <<>>)
       IN  [outcome |-> "ok",
            proof |-> [hElement   |-> heap[leaf].hash,
                       siblings   |-> w.siblings,
                       directions |-> [i \in 1..Len(w.directions) |-> ~w.directions[i]]]]

GetProofOp(heap, t, index) ==
  IF IntGeq(index, Len(t.leaves))
  THEN [outcome |-> "error", proof |-> ZeroProof]
  ELSE IF ~InRange(index, Len(t.leaves))
  THEN [outcome |-> "panic", proof |-> ZeroProof]
  ELSE LET leaf == t.leaves[index.lo + 1]
           w    == ProofWalk(heap, t.root, leaf, <<>>, <<>>)
       IN  [outcome |-> "ok",
            proof |-> [hElement   |-> heap[leaf].hash,
                       siblings   |-> w.siblings,
                       directions |-> w.directions]]

\* ------------------------------------------------------------- VerifyProof
\* for i, siblingHash := range proof.siblings; directions[i] panics when
\* i is past the end of proof.directions
RECURSIVE VerifyLoop(_, _, _, _)
VerifyLoop(siblings, directions, i, currentHash) ==
  IF i > Len(siblings) THEN [panic |-> FALSE, hash |-> currentHash]
  ELSE IF i > Len(directions) THEN [panic |-> TRUE, hash |-> currentHash]
  ELSE IF directions[i]
       THEN VerifyLoop(siblings, directions, i + 1, hashNode(siblings[i], currentHash))
       ELSE VerifyLoop(siblings, directions, i + 1, hashNode(currentHash, siblings[i]))

VerifyProofOp(root, proof) ==
  LET r == VerifyLoop(proof.siblings, proof.directions, 1, proof.hElement)
  IN  IF r.panic THEN [outcome |-> "panic", ret |-> FALSE]
      ELSE [outcome |-> "ok", ret |-> (r.hash = root)]

\* ----------------------------------------------------------- UpdateElement
\* for node != t.root { parent.hash = hashNode(...); node = parent }
RECURSIVE UpdateWalk(_, _, _)
UpdateWalk(heap, root, node) ==
  IF node # root
  THEN LET parent == heap[node].parent
       IN  IF heap[parent].left = node
           THEN UpdateWalk([heap EXCEPT ![parent].hash =
                              hashNode(heap[node].hash, heap[heap[parent].right].hash)],
                           root, parent)
           ELSE UpdateWalk([heap EXCEPT ![parent].hash =
                              hashNode(heap[heap[parent].left].hash, heap[node].hash)],
                           root, parent)
  ELSE heap

\* UpdateElement that rewrites the leaf and forgets the walk to the root
UpdateElementOp_LeafOnly(heap, t, index, element) ==
  IF IntGeq(index, Len(t.leaves))
  THEN [outcome |-> "error", heap |-> heap]
  ELSE IF ~InRange(index, Len(t.leaves))
  THEN [outcome |-> "panic", heap |-> heap]
  ELSE LET leaf == t.leaves[index.lo + 1]
       IN  [outcome |-> "ok", heap |-> [heap EXCEPT ![leaf].hash = hashLeaf(element)]]

\* UpdateElement that also writes the new digest into the leaf's sibling
UpdateElementOp_TouchesSibling(heap, t, index, element) ==
  IF IntGeq(index, Len(t.leaves))
  THEN [outcome |-> "error", heap |-> heap]
  ELSE IF ~InRange(index, Len(t.leaves))
  THEN [outcome |-> "panic", heap |-> heap]
  ELSE LET leaf  == t.leaves[index.lo + 1]
           sib   == getSibling(heap, leaf)
           heap1 == [n \in 1..Len(heap) |->
                       IF n = leaf \/ n = sib
                       THEN [heap[n] EXCEPT !.hash = hashLeaf(element)]
                       ELSE heap[n]]
       IN  [outcome |-> "ok", heap |-> UpdateWalk(heap1, t.root, leaf)]

UpdateElementOp(heap, t, index, element) ==
  IF IntGeq(index, Len(t.leaves))
  THEN [outcome |-> "error", heap |-> heap]
  ELSE IF ~InRange(index, Len(t.leaves))
  THEN [outcome |-> "panic", heap |-> heap]
  ELSE LET leaf  == t.leaves[index.lo + 1]
           heap1 == [heap EXCEPT ![leaf].hash = hashLeaf(element)]
       IN  [outcome |-> "ok", heap |-> UpdateWalk(heap1, t.root, leaf)]

\* ------------------------------------------------------ GetAggregatedProof
NilAggProof ==
  [isNil |-> TRUE, start |-> U64(0), end |-> U64(0),
   siblings |-> <<>>, directions |-> <<>>]

\* for node != t.root { ... node = parent } of GetAggregatedProof
RECURSIVE AggWalk(_, _, _, _, _)
AggWalk(heap, root, node, siblings, directions) ==
  IF node # root
  THEN LET parent == heap[node].parent
       IN  IF heap[parent].left = node
           THEN AggWalk(heap, root, parent,
                        Append(siblings, heap[heap[parent].right].hash),
                        Append(directions, FALSE))
           ELSE AggWalk(heap, root, parent,
                        Append(siblings, heap[heap[parent].left].hash),
                        Append(directions, TRUE))
  ELSE [siblings |-> siblings, directions |-> directions]

\* GetAggregatedProof that emits the path root-first instead of leaf-first
GetAggregatedProofOp_RootFirst(heap, t, startIndex, endIndex) ==
  IF UGeq(startIndex, endIndex) \/ IntGt(endIndex, Len(t.leaves))
  THEN [outcome |-> "error", proof |-> NilAggProof]
  ELSE IF USubLess1(endIndex, startIndex)
  THEN [outcome |-> "error", proof |-> NilAggProof]
  ELSE IF ~InRange(startIndex, Len(t.leaves))
  THEN [outcome |-> "panic", proof |-> NilAggProof]
  ELSE LET w == AggWalk(heap, t.root, t.leaves[startIndex.lo + 1], <<>>, <<>>)
           k == Len(w.siblings)
       IN  [outcome |-> "ok",
            proof |-> [isNil |-> FALSE, start |-> startIndex, end |-> endIndex,
                       siblings |-> [i \in 1..k |-> w.siblings[k + 1 - i]],
                       directions |-> [i \in 1..k |-> w.directions[k + 1 - i]]]]

GetAggregatedProofOp(heap, t, startIndex, endIndex) ==
  IF UGeq(startIndex, endIndex) \/ IntGt(endIndex, Len(t.leaves))
  THEN [outcome |-> "error", proof |-> NilAggProof]
  ELSE IF USubLess1(endIndex, startIndex)
  THEN [outcome |-> "error", proof |-> NilAggProof]
  ELSE IF ~InRange(startIndex, Len(t.leaves))
  THEN [outcome |-> "panic", proof |-> NilAggProof]
  ELSE LET w == AggWalk(heap, t.root, t.leaves[startIndex.lo + 1], <<>>, <<>>)
       IN  [outcome |-> "ok",
            proof |-> [isNil |-> FALSE, start |-> startIndex, end |-> endIndex,
                       siblings |-> w.siblings, directions |-> w.directions]]

\* --------------------------------------------------- VerifyAggregatedProof
RECURSIVE VerifyAggLoop(_, _, _, _)
VerifyAggLoop(siblings, directions, i, currentHash) ==
  IF i > Len(siblings) THEN [panic |-> FALSE, hash |-> currentHash]
  ELSE IF i > Len(directions) THEN [panic |-> TRUE, hash |-> currentHash]
  ELSE IF directions[i]
       THEN VerifyAggLoop(siblings, directions, i + 1, hashNode(siblings[i], currentHash))
       ELSE VerifyAggLoop(siblings, directions, i + 1, hashNode(currentHash, siblings[i]))

VerifyAggregatedProofOp(root, aggProof, heap, t) ==
  IF UGeq(aggProof.start, aggProof.end) \/ UGt(aggProof.end, U64(Len(t.leaves)))
  THEN [outcome |-> "ok", ret |-> FALSE]
  ELSE LET r == VerifyAggLoop(aggProof.siblings, aggProof.directions, 1,
                              heap[t.leaves[aggProof.start.lo + 1]].hash)
       IN  IF r.panic THEN [outcome |-> "panic", ret |-> FALSE]
           ELSE [outcome |-> "ok", ret |-> (r.hash = root)]

\* ------------------------------------------------------------------- state
VARIABLES heap, tree, stored, lastCall

vars == <<heap, tree, stored, lastCall>>

HasTree == tree.root # NilNode

NumLeaves == Len(tree.leaves)

MaxLeaves == getNextPowerOfTwo(MaxLen)

\* index arguments: in range, just past the end, and with bit 63 set
Indexes == { U64(n) : n \in 0..(MaxLeaves + 1) } \cup { Big(0) }

Call(op, args, outcome, ret) ==
  [op |-> op, args |-> args, outcome |-> outcome, ret |-> ret]

\* the state a call mt, err := NewMerkleTree(elements) leaves behind
AfterNew(elements) ==
  LET r == NewMerkleTreeOp(elements)
  IN  /\ heap' = r.heap
      /\ tree' = r.tree
      /\ stored' = IF r.err THEN <<>>
                   ELSE PadElements(elements, Len(r.tree.leaves))
      /\ lastCall' = Call("NewMerkleTree", [elements |-> elements],
                          IF r.err THEN "error" ELSE "ok", r.tree)

Init ==
  \E elements \in ElementSeqs :
    LET r == NewMerkleTreeOp(elements)
    IN  /\ heap = r.heap
        /\ tree = r.tree
        /\ stored = IF r.err THEN <<>>
                    ELSE PadElements(elements, Len(r.tree.leaves))
        /\ lastCall = Call("NewMerkleTree", [elements |-> elements],
                           IF r.err THEN "error" ELSE "ok", r.tree)

NewMerkleTree == \E elements \in ElementSeqs : AfterNew(elements)

GetProof ==
  /\ HasTree
  /\ \E index \in Indexes :
       LET r == GetProofOp(heap, tree, index)
       IN  lastCall' = Call("GetProof", [index |-> index], r.outcome, r.proof)
  /\ UNCHANGED <<heap, tree, stored>>

UpdateElement ==
  /\ HasTree
  /\ \E index \in Indexes, element \in Elements :
       LET r == UpdateElementOp(heap, tree, index, element)
       IN  /\ heap' = r.heap
           /\ stored' = IF r.outcome = "ok"
                        THEN [stored EXCEPT ![index.lo + 1] = element]
                        ELSE stored
           /\ lastCall' = Call("UpdateElement",
                               [index |-> index, element |-> element],
                               r.outcome, r.outcome # "ok")
  /\ UNCHANGED tree

GetAggregatedProof ==
  /\ HasTree
  /\ \E startIndex \in Indexes, endIndex \in Indexes :
       LET r == GetAggregatedProofOp(heap, tree, startIndex, endIndex)
       IN  lastCall' = Call("GetAggregatedProof",
                            [startIndex |-> startIndex, endIndex |-> endIndex],
                            r.outcome, r.proof)
  /\ UNCHANGED <<heap, tree, stored>>

Front(s) == IF Len(s) = 0 THEN s ELSE SubSeq(s, 1, Len(s) - 1)

ForeignHash == hashLeaf(<<Ch("b")>>)

\* sibling/direction sequences a verifier is handed: the genuine path, and
\* paths with a direction or a sibling dropped, added or altered
PathVariants(sb, d) ==
  { <<sb, d>>, <<sb, Front(d)>>, <<sb, Append(d, TRUE)>>, <<Front(sb), d>>,
    <<sb, [i \in 1..Len(d) |-> ~d[i]]>>,
    <<[i \in 1..Len(sb) |-> ForeignHash], d>> }

\* (root, proof) pairs handed to VerifyProof: every path variant against the
\* tree's root, and the genuine proof with a foreign leaf digest or root
VerifyProofInputs ==
  UNION { LET p == GetProofOp(heap, tree, U64(i)).proof
          IN  { <<getRoot(heap, tree),
                  [hElement |-> p.hElement, siblings |-> v[1], directions |-> v[2]]>> :
                  v \in PathVariants(p.siblings, p.directions) }
              \cup { <<getRoot(heap, tree), [p EXCEPT !.hElement = ForeignHash]>>,
                     <<ForeignHash, p>> }
        : i \in 0..(NumLeaves - 1) }

VerifyProof ==
  /\ HasTree
  /\ \E inp \in VerifyProofInputs :
       LET r == VerifyProofOp(inp[1], inp[2])
       IN  lastCall' = Call("VerifyProof", [root |-> inp[1], proof |-> inp[2]],
                            r.outcome, r.ret)
  /\ UNCHANGED <<heap, tree, stored>>

\* (root, aggProof) pairs handed to VerifyAggregatedProof
VerifyAggregatedProofInputs ==
  UNION { LET w == AggWalk(heap, tree.root, tree.leaves[i + 1], <<>>, <<>>)
              P(e, sb, d) == [isNil |-> FALSE, start |-> U64(i), end |-> e,
                              siblings |-> sb, directions |-> d]
          IN  { <<getRoot(heap, tree), P(e, v[1], v[2])>> :
                  e \in { U64(i + 1), U64(NumLeaves) },
                  v \in { <<w.siblings, w.directions>>,
                          <<w.siblings, Front(w.directions)>>,
                          <<w.siblings, Append(w.directions, TRUE)>>,
                          <<[k \in 1..Len(w.siblings) |-> ForeignHash], w.directions>> } }
              \cup { <<getRoot(heap, tree), P(e, w.siblings, w.directions)>> :
                       e \in { U64(i), U64(NumLeaves + 1), Big(0) } }
              \cup { <<ForeignHash, P(U64(i + 1), w.siblings, w.directions)>> }
        : i \in 0..(NumLeaves - 1) }

VerifyAggregatedProof ==
  /\ HasTree
  /\ \E inp \in VerifyAggregatedProofInputs :
       LET r == VerifyAggregatedProofOp(inp[1], inp[2], heap, tree)
       IN  lastCall' = Call("VerifyAggregatedProof",
                            [root |-> inp[1], aggProof |-> inp[2]],
                            r.outcome, r.ret)
  /\ UNCHANGED <<heap, tree, stored>>

Next ==
  \/ NewMerkleTree
  \/ GetProof
  \/ UpdateElement
  \/ GetAggregatedProof
  \/ VerifyProof
  \/ VerifyAggregatedProof

Spec == Init /\ [][Next]_vars

TypeOK ==
  /\ lastCall.outcome \in { "ok", "error", "panic" }
  /\ HasTree => Len(stored) = NumLeaves

\* ------------------------------------------------------- claim vocabulary
LeafIndexes == 0..(NumLeaves - 1)

IsPowerOfTwo(m) == \E k \in 0..m : 2 ^ k = m

SmallestPowerOfTwoGeq(n) ==
  CHOOSE m \in n..(2 * n) : IsPowerOfTwo(m) /\ \A k \in n..(m - 1) : ~IsPowerOfTwo(k)

\* bottom-up pairwise reduction of a sequence of digests, left to right
RECURSIVE Reduce(_)
Reduce(hs) ==
  IF Len(hs) = 1 THEN hs[1]
  ELSE Reduce([i \in 1..(Len(hs) \div 2) |-> hashNode(hs[2 * i - 1], hs[2 * i])])

\* the node and its ancestors, following parent links
RECURSIVE PathToRoot(_, _)
PathToRoot(h, n) ==
  IF n = NilNode THEN {} ELSE {n} \cup PathToRoot(h, h[n].parent)

NonEmptySeqsUpTo(n) == UNION { SeqsOfLen(Elements, k) : k \in 1..n }

\* C1: in every state with a tree, GetProof(i) succeeds for every leaf index
\* i (padding included), its hElement is hashLeaf of the element stored at i,
\* VerifyProof(getRoot(), proof) is true, and a one-leaf tree yields empty
\* siblings and directions.
C1_ProofsVerify ==
  HasTree =>
    \A i \in LeafIndexes :
      LET r == GetProofOp(heap, tree, U64(i))
      IN  /\ r.outcome = "ok"
          /\ r.proof.hElement = hashLeaf(stored[i + 1])
          /\ VerifyProofOp(getRoot(heap, tree), r.proof) = [outcome |-> "ok", ret |-> TRUE]
          /\ NumLeaves = 1 => r.proof.siblings = <<>> /\ r.proof.directions = <<>>

C1_Witness ==
  /\ lastCall.op = "VerifyProof"
  /\ lastCall.ret = TRUE
  /\ NumLeaves = 4
  /\ stored[4] # EmptyString
  /\ lastCall.args.proof.hElement = hashLeaf(stored[4])
  /\ Len(lastCall.args.proof.siblings) = 2

\* C2: every internal node's hash is hashNode(left.hash, right.hash) in every
\* reachable state, and getRoot() equals the root of a tree freshly built
\* from the elements currently stored.
C2_InternalHashes ==
  /\ \A n \in 1..Len(heap) :
       heap[n].left # NilNode =>
         heap[n].hash = hashNode(heap[heap[n].left].hash, heap[heap[n].right].hash)
  /\ HasTree =>
       LET f == NewMerkleTreeOp(stored)
       IN  getRoot(heap, tree) = getRoot(f.heap, f.tree)

C2_Witness ==
  /\ lastCall.op = "UpdateElement"
  /\ lastCall.outcome = "ok"
  /\ NumLeaves = 4
  /\ lastCall.args.index = U64(2)
  /\ lastCall.args.element # EmptyString
  /\ stored[1] # EmptyString

\* C3: NewMerkleTree on n > 0 elements returns a tree whose leaves number the
\* smallest power of two >= n, hold hashLeaf(elements[i]) for i < n and
\* hashLeaf("") beyond, and whose root is the pairwise reduction of that
\* padded leaf sequence; on no elements it returns an error and no tree.
C3_Build ==
  lastCall.op = "NewMerkleTree" =>
    LET elements == lastCall.args.elements
        n == Len(elements)
    IN  IF n = 0
        THEN lastCall.outcome = "error" /\ tree = NilTree /\ lastCall.ret = NilTree
        ELSE /\ lastCall.outcome = "ok"
             /\ lastCall.ret = tree
             /\ NumLeaves = SmallestPowerOfTwoGeq(n)
             /\ \A i \in 1..NumLeaves :
                  heap[tree.leaves[i]].hash =
                    IF i <= n THEN hashLeaf(elements[i]) ELSE hashLeaf(EmptyString)
             /\ getRoot(heap, tree) =
                  Reduce([i \in 1..NumLeaves |->
                            IF i <= n THEN hashLeaf(elements[i])
                            ELSE hashLeaf(EmptyString)])

C3_Witness ==
  /\ lastCall.op = "NewMerkleTree"
  /\ Len(lastCall.args.elements) = 3
  /\ NumLeaves = 4
  /\ heap[tree.leaves[4]].hash = hashLeaf(EmptyString)

C5_OutOfBoundsIsError ==
  [][ ( /\ lastCall'.op \in { "GetProof", "UpdateElement" }
        /\ UGeq(lastCall'.args.index, U64(NumLeaves)) )
      => ( /\ lastCall'.outcome = "error"
           /\ heap' = heap ) ]_vars

\* C6: for every (start, end) with start >= end or end > len(leaves), bit 63
\* set or not, GetAggregatedProof returns an error and no proof.
C6_BadRangeIsError ==
  ( /\ lastCall.op = "GetAggregatedProof"
    /\ \/ UGeq(lastCall.args.startIndex, lastCall.args.endIndex)
       \/ UGt(lastCall.args.endIndex, U64(NumLeaves)) )
  => ( lastCall.outcome = "error" /\ lastCall.ret.isNil )

\* C7: VerifyProof and VerifyAggregatedProof never panic, and return false
\* for a proof whose siblings and directions differ in length and (for the
\* aggregated form) for start >= end or end > len(tree.leaves).
C7_VerifyNeverFails ==
  /\ lastCall.op = "VerifyProof" =>
       /\ lastCall.outcome = "ok"
       /\ Len(lastCall.args.proof.siblings) # Len(lastCall.args.proof.directions)
            => lastCall.ret = FALSE
  /\ lastCall.op = "VerifyAggregatedProof" =>
       /\ lastCall.outcome = "ok"
       /\ ( \/ Len(lastCall.args.aggProof.siblings)
                 # Len(lastCall.args.aggProof.directions)
            \/ UGeq(lastCall.args.aggProof.start, lastCall.args.aggProof.end)
            \/ UGt(lastCall.args.aggProof.end, U64(NumLeaves)) )
            => lastCall.ret = FALSE

\* C8: the root commits to the element vector uniquely: a tree built from
\* elements a has the root of a tree built from b only if a = b.
C8_RootIsUnique ==
  ( lastCall.op = "NewMerkleTree" /\ lastCall.outcome = "ok" ) =>
    \A b \in NonEmptySeqsUpTo(MaxLen + 1) :
      LET f == NewMerkleTreeOp(b)
      IN  getRoot(f.heap, f.tree) = getRoot(heap, tree) => b = lastCall.args.elements

\* C9: GetAggregatedProof returns an error for every range that holds fewer
\* than two elements (end - start < 2).
C9_RangeOfTwo ==
  ( /\ lastCall.op = "GetAggregatedProof"
    /\ \/ UGeq(lastCall.args.startIndex, lastCall.args.endIndex)
       \/ /\ lastCall.args.endIndex.hi = lastCall.args.startIndex.hi
          /\ lastCall.args.endIndex.lo = lastCall.args.startIndex.lo + 1 )
  => lastCall.outcome = "error"

\* C10: a successful UpdateElement(i, x) changes only the hash of leaves[i]
\* and of its ancestors; every other hash, every left/right/parent link, the
\* root, and the leaves sequence are unchanged; the proof and verification
\* operations change nothing in the tree.
C10_UpdateFrame ==
  [][ /\ ( lastCall'.op = "UpdateElement" /\ lastCall'.outcome = "ok" ) =>
           /\ tree' = tree
           /\ Len(heap') = Len(heap)
           /\ \A n \in 1..Len(heap) :
                /\ heap'[n].left = heap[n].left
                /\ heap'[n].right = heap[n].right
                /\ heap'[n].parent = heap[n].parent
                /\ n \notin PathToRoot(heap, tree.leaves[lastCall'.args.index.lo + 1])
                     => heap'[n].hash = heap[n].hash
      /\ lastCall'.op \in { "GetProof", "GetAggregatedProof", "VerifyProof",
                            "VerifyAggregatedProof" }
           => heap' = heap /\ tree' = tree ]_vars

C10_Witness ==
  /\ lastCall.op = "UpdateElement"
  /\ lastCall.outcome = "ok"
  /\ NumLeaves = 4
  /\ lastCall.args.index = U64(1)
  /\ heap[tree.leaves[2]].hash = hashLeaf(lastCall.args.element)
  /\ heap[tree.leaves[1]].hash # hashLeaf(lastCall.args.element)
  /\ heap[tree.leaves[3]].hash # hashLeaf(lastCall.args.element)

====
